---- MODULE Spec2Model ----
(***************************************************************************)
(* A model of src/lobby.tsx: the function start(gameType), which resolves  *)
(* the session role from the page locator, wires a PeerJS connection to a  *)
(* NetplayManager, echoes pings and paces the game loop.                   *)
(*                                                                         *)
(* Two browser pages, "a" and "b", each run start().  Every callback the   *)
(* code registers (peer.on, conn.on, setInterval, requestAnimationFrame)   *)
(* is one action; JavaScript runs each to completion.  The variable ev     *)
(* records the callback that ran last, with the calls it made on its       *)
(* collaborators and the messages it handed to conn.send.                  *)
(*                                                                         *)
(* Time is counted in units of 1/Scale ms.  requestAnimationFrame passes   *)
(* a fractional timestamp (ms since the page loaded); Date.now() is whole  *)
(* ms since the epoch.                                                     *)
(***************************************************************************)
EXTENDS Integers, Sequences, FiniteSets, TLC

Pages == {"a", "b"}

\* ---------------------------------------------------------------- bounds
Scale == 2
MaxTime == 2
MaxPaceTime == 5
MaxPairTime == 2
MaxOrderTime == 4
MaxConns == 2
MaxPings == 1
MaxSamples == 1
MaxQueue == 2
EpochMs == 1000

Conns == 1..MaxConns

\* gameType.timestep, in units: 1 ms and 1 + 1/Scale ms (a fractional one).
Timesteps == {Scale, Scale + 1}

\* What inputReader() can return, and the local inputs' wire form.
Inputs == {<<"idle">>, <<"up">>}
PairInputs == {<<"up">>}

\* ------------------------------------------------------------- the locator
\* window.location.hash as its components key[=value].  NoValue is a key
\* with no "=" (query-string parses it to null), "" a key with "=" and
\* nothing after it.  Undefined is what reading a missing key yields.
NoValue == "<null>"
Undefined == "<undefined>"

Component(k, v) == [key |-> k, value |-> v]

Locators ==
  { <<>>,
    <<Component("room", NoValue)>>,
    <<Component("room", "")>>,
    <<Component("room", "a")>>,
    <<Component("x", "1"), Component("room", "zz")>> }

\* query.parse(hash)[key]
QueryParse(hash, key) ==
  LET at == {i \in DOMAIN hash : hash[i].key = key}
  IN  IF at = {} THEN Undefined
      ELSE hash[CHOOSE i \in at : \A j \in at : i <= j].value

\* JavaScript's !!v on what QueryParse yields
TruthyPresent(v) == v # Undefined
Truthy(v) == v \notin {Undefined, NoValue, ""}

\* ------------------------------------------------------------ the players
Player(id, local, server) ==
  [getID |-> id, isLocalPlayer |-> local, isRemotePlayer |-> ~local,
   isServer |-> server, isClient |-> ~server]

NullPlayers == <<>>
HostPlayersShadowed == NullPlayers
HostPlayersSwapped == <<Player(0, FALSE, TRUE), Player(1, TRUE, FALSE)>>
HostPlayers == <<Player(0, TRUE, TRUE), Player(1, FALSE, FALSE)>>
ClientPlayers == <<Player(0, FALSE, TRUE), Player(1, TRUE, FALSE)>>

\* JavaScript's arr[i], counted from 0
At(arr, i) == arr[i + 1]

\* ------------------------------------------------------------- the engine
\* new NetplayManager(isServer, ..., 10, pingMeasure, timestep, onInput,
\* onState?): id counts the instances the page has constructed (0: null),
\* conn is the connection its callbacks capture, frame its current frame.
MaxPredictedFrames == 10

NullManager ==
  [id |-> 0, isServer |-> FALSE, maxPredictedFrames |-> 0, conn |-> 0,
   hasStateCallback |-> FALSE, frame |-> 0]

NewManager(n, server, c, stateCb) ==
  [id |-> n, isServer |-> server, maxPredictedFrames |-> MaxPredictedFrames,
   conn |-> c, hasStateCallback |-> stateCb, frame |-> 0]

HostManagerDeferred(n, c) == NullManager
ClientManagerWithState(n, c) == NewManager(n, FALSE, c, TRUE)
HostManager(n, c) == NewManager(n, TRUE, c, TRUE)
ClientManager(n, c) == NewManager(n, FALSE, c, FALSE)

\* ----------------------------------------------------------- the messages
ToJSON(v) == <<"json">> \o v
FromJSON(j) == Tail(j)

Msg(t, f, b, s, k) ==
  [type |-> t, frame |-> f, body |-> b, sent_time |-> s, ok |-> k]

NoMsg == Msg("none", 0, <<>>, 0, TRUE)
InputMsgNoFrame(f, input) == Msg("input", 0, ToJSON(input), 0, TRUE)
InputMsg(f, input) == Msg("input", f, ToJSON(input), 0, TRUE)
StateMsg(f, state) == Msg("state", f, ToJSON(state), 0, TRUE)
PingReq(t) == Msg("ping-req", 0, <<>>, t, TRUE)
PingRespZero(t) == Msg("ping-resp", 0, <<>>, 0, TRUE)
PingResp(t) == Msg("ping-resp", 0, <<>>, t, TRUE)

\* A call a callback makes on a collaborator.
Call(fn, f, pl, v, n) ==
  [fn |-> fn, frame |-> f, player |-> pl, val |-> v, num |-> n]

NoRemote == [page |-> "none", conn |-> 0]
EnvRemote == [page |-> "env", conn |-> 0]
Remote(q, c) == [page |-> q, conn |-> c]


\* ---------------------------------------------------------------- the state
VARIABLES
  locator,         \* window.location.hash of each page
  timestep,        \* gameType.timestep, in units
  isClient,        \* const isClient
  sig,             \* the Peer's signaling state: "connecting" or "open"
  stats,           \* what stats.innerHTML shows: "", "joinURL" or "diag"
  errored,         \* console.error has been called
  connState,       \* per connection: "none", "pending" or "open"
  remote,          \* per connection: the other end
  dialed,          \* per connection: the id passed to peer.connect
  netplayManager,  \* let netplayManager
  players,         \* let players
  out,             \* per connection: messages sent and not yet delivered
  intervals,       \* the connections whose setInterval ping task runs
  pumps,           \* requestAnimationFrame(gameLoop) callbacks pending
  lastFrameTime,   \* let lastFrameTime
  inputReads,      \* how often inputReader has been called
  tickTimes,       \* the timestamps at which netplayManager.tick was called
  now,             \* the time since the pages loaded, in units
  pingsSent,       \* ping-req messages sent so far
  pingMeasure,     \* the EWMASD: how many samples it has been given
  emitted,         \* what the engine's callbacks were called with, for a page
  observed,        \* the engine operations called for messages from a page
  decodeFailed,    \* getInputFromJSON or getStateFromJSON has raised
  ev               \* the callback that ran last

vars ==
  <<locator, timestep, isClient, sig, stats, errored, connState, remote,
    dialed, netplayManager, players, out, intervals, pumps, lastFrameTime,
    inputReads, tickTimes, now, pingsSent, pingMeasure, emitted, observed,
    decodeFailed, ev>>

Event(op, p, c, m, calls, sent, raised) ==
  [op |-> op, page |-> p, conn |-> c, msg |-> m, calls |-> calls,
   sent |-> sent, raised |-> raised]

\* No callback is running: control is with the browser's event loop.
Idle == Event("idle", "none", 0, NoMsg, <<>>, <<>>, "none")

\* const isClient = !!parsedHash.room
ResolveIsClient(hash) == Truthy(QueryParse(hash, "room"))

\* Math.floor(TIMESTEP), in units
Floor(t) == (t \div Scale) * Scale

\* Date.now(), in whole ms
DateNow == EpochMs + (now \div Scale)

Init ==
  /\ locator \in [Pages -> Locators]
  /\ timestep \in Timesteps
  /\ isClient = [p \in Pages |-> ResolveIsClient(locator[p])]
  /\ sig = [p \in Pages |-> "connecting"]
  /\ stats = [p \in Pages |-> ""]
  /\ errored = [p \in Pages |-> FALSE]
  /\ connState = [p \in Pages |-> [c \in Conns |-> "none"]]
  /\ remote = [p \in Pages |-> [c \in Conns |-> NoRemote]]
  /\ dialed = [p \in Pages |-> [c \in Conns |-> Undefined]]
  /\ netplayManager = [p \in Pages |-> NullManager]
  /\ players = [p \in Pages |-> NullPlayers]
  /\ out = [p \in Pages |-> [c \in Conns |-> <<>>]]
  /\ intervals = [p \in Pages |-> {}]
  /\ pumps = [p \in Pages |-> 0]
  /\ lastFrameTime = [p \in Pages |-> 0]
  /\ inputReads = [p \in Pages |-> 0]
  /\ tickTimes = [p \in Pages |-> <<>>]
  /\ now = 0
  /\ pingsSent = [p \in Pages |-> 0]
  /\ pingMeasure = [p \in Pages |-> 0]
  /\ emitted = [p \in Pages |-> <<>>]
  /\ observed = [p \in Pages |-> <<>>]
  /\ decodeFailed = [p \in Pages |-> FALSE]
  /\ ev = Idle

\* ------------------------------------------------------------- conn.send
\* conn.send(m) for each m of msgs: an open connection queues them for the
\* page at the other end (a remote that is not a modelled page takes them
\* at once); one that is not open drops them and emits "error", which the
\* conn.on("error") handler logs.
\* The connection slots of page p still unused, among the first k.
FreeConns(p, k) == {c \in 1..k : connState[p][c] = "none"}

OutAfter(p, c, msgs) ==
  IF c \in Conns /\ connState[p][c] = "open" /\ remote[p][c].page \in Pages
  THEN [out EXCEPT ![p][c] = @ \o msgs]
  ELSE out

ErroredAfter(p, c, msgs) ==
  IF msgs # <<>> /\ (c \notin Conns \/ connState[p][c] # "open")
  THEN [errored EXCEPT ![p] = TRUE]
  ELSE errored

HasRoom(p, c, k) ==
  (c \in Conns /\ remote[p][c].page \in Pages) => Len(out[p][c]) + k <= MaxQueue

\* What the callbacks given to the NetplayManager were called with is kept
\* for a connection to another page.
EmittedAfter(p, c, emits) ==
  IF c \in Conns /\ connState[p][c] = "open" /\ remote[p][c].page \in Pages
  THEN [emitted EXCEPT ![p] = @ \o emits]
  ELSE emitted

\* The calls among calls that hand a message to the engine.
Observes(calls) ==
  SelectSeq(calls, LAMBDA k : k.fn \in {"onRemoteInput", "onStateSync"})


\* peer.connect(room, {serialization: "json", reliable: true})
DialOptionsBinary == <<"binary", "reliable">>
DialOptions == <<"json", "reliable">>

\* ------------------------------------------------- peer.on("open") (72, 166)
\* Host: shows the join URL.  Client: dials parsedHash.room, creates the
\* players and the NetplayManager, and registers the connection's handlers.
OnPeerOpen(p, k) ==
  IF ~isClient[p]
  THEN /\ stats' = [stats EXCEPT ![p] = "joinURL"]
       /\ ev' = Event("peer.open", p, 0, NoMsg, <<>>, <<>>, "none")
       /\ UNCHANGED <<connState, dialed, players, netplayManager>>
  ELSE /\ FreeConns(p, k) # {}
       /\ LET c == CHOOSE x \in FreeConns(p, k) : \A y \in FreeConns(p, k) : x <= y
              room == QueryParse(locator[p], "room")
          IN  /\ connState' = [connState EXCEPT ![p][c] = "pending"]
              /\ dialed' = [dialed EXCEPT ![p][c] = room]
              /\ players' = [players EXCEPT ![p] = ClientPlayers]
              /\ netplayManager' =
                   [netplayManager EXCEPT
                      ![p] = ClientManager(netplayManager[p].id + 1, c)]
              /\ ev' = Event("peer.open", p, c, NoMsg,
                             <<Call("peer.connect", 0, -1,
                                    <<room>> \o DialOptions, 0),
                               Call("new NetplayManager", 0, -1, <<>>, 0)>>,
                             <<>>, "none")
       /\ UNCHANGED stats

PeerOpen(p, k) ==
  /\ ev = Idle
  /\ sig[p] = "connecting"
  /\ sig' = [sig EXCEPT ![p] = "open"]
  /\ OnPeerOpen(p, k)
  /\ UNCHANGED <<decodeFailed, emitted, observed, locator, timestep, isClient, errored, remote, out, intervals,
                 pumps, lastFrameTime, inputReads, tickTimes, now, pingsSent,
                 pingMeasure>>

\* The signaling server is reached again and PeerJS emits "open" once more.
PeerReopen(p, k) ==
  /\ ev = Idle
  /\ sig[p] = "open"
  /\ OnPeerOpen(p, k)
  /\ UNCHANGED <<decodeFailed, emitted, observed, locator, timestep, isClient, sig, errored, remote, out,
                 intervals, pumps, lastFrameTime, inputReads, tickTimes, now,
                 pingsSent, pingMeasure>>

\* ---------------------------------------- peer.on("error") (70, 165): logs
PeerError(p) ==
  /\ ev = Idle
  /\ errored' = [errored EXCEPT ![p] = TRUE]
  /\ ev' = Event("peer.error", p, 0, NoMsg,
                 <<Call("console.error", 0, -1, <<>>, 0)>>, <<>>, "none")
  /\ UNCHANGED <<decodeFailed, emitted, observed, locator, timestep, isClient, sig, stats, connState, remote,
                 dialed, netplayManager, players, out, intervals, pumps,
                 lastFrameTime, inputReads, tickTimes, now, pingsSent,
                 pingMeasure>>

\* ----------------------------------------- peer.on("connection") (81-161)
\* Only the host registers it.  It creates the players and the
\* NetplayManager, whose callbacks send on this connection, and registers
\* the connection's handlers.
OnConnectionStarts(h, c) ==
  /\ players' = [players EXCEPT ![h] = HostPlayers]
  /\ netplayManager' =
       [netplayManager EXCEPT ![h] = HostManager(netplayManager[h].id + 1, c)]
  /\ connState' = [connState EXCEPT ![h][c] = "pending"]
  /\ ev' = Event("peer.connection", h, c, NoMsg,
                 <<Call("new NetplayManager", 0, -1, <<>>, 0)>>, <<>>, "none")
  /\ intervals' = [intervals EXCEPT ![h] = @ \cup {c}]
  /\ pumps' = [pumps EXCEPT ![h] = @ + 1]

OnConnection(h, c) ==
  /\ players' = [players EXCEPT ![h] = HostPlayers]
  /\ netplayManager' =
       [netplayManager EXCEPT ![h] = HostManager(netplayManager[h].id + 1, c)]
  /\ connState' = [connState EXCEPT ![h][c] = "pending"]
  /\ ev' = Event("peer.connection", h, c, NoMsg,
                 <<Call("new NetplayManager", 0, -1, <<>>, 0)>>, <<>>, "none")
  /\ UNCHANGED <<intervals, pumps>>

\* The dial of page q, on its connection cq, reaches host h.
Connection(h, q, cq, k) ==
  /\ ev = Idle
  /\ h # q
  /\ ~isClient[h]
  /\ sig[h] = "open"
  /\ connState[q][cq] = "pending"
  /\ dialed[q][cq] = h
  /\ remote[q][cq] = NoRemote
  /\ FreeConns(h, k) # {}
  /\ LET c == CHOOSE x \in FreeConns(h, k) : \A y \in FreeConns(h, k) : x <= y
     IN  /\ OnConnection(h, c)
         /\ remote' = [remote EXCEPT ![h][c] = Remote(q, cq),
                                     ![q][cq] = Remote(h, c)]
  /\ UNCHANGED <<decodeFailed, emitted, observed, locator, timestep, isClient, sig, stats, errored, dialed,
                 out, lastFrameTime, inputReads, tickTimes, now, pingsSent, pingMeasure>>

\* A peer that is not one of the modelled pages connects to host h.
EnvConnection(h, k) ==
  /\ ev = Idle
  /\ ~isClient[h]
  /\ sig[h] = "open"
  /\ FreeConns(h, k) # {}
  /\ LET c == CHOOSE x \in FreeConns(h, k) : \A y \in FreeConns(h, k) : x <= y
     IN  /\ OnConnection(h, c)
         /\ remote' = [remote EXCEPT ![h][c] = EnvRemote]
  /\ UNCHANGED <<decodeFailed, emitted, observed, locator, timestep, isClient, sig, stats, errored, dialed,
                 out, lastFrameTime, inputReads, tickTimes, now, pingsSent, pingMeasure>>

\* A peer connects to a client page: the client branch registers no
\* handler for "connection" (162-254), so nothing runs.
StrayConnection(p) ==
  /\ ev = Idle
  /\ isClient[p]
  /\ sig[p] = "open"
  /\ ev' = Event("peer.connection.unheard", p, 0, NoMsg, <<>>, <<>>, "none")
  /\ UNCHANGED <<decodeFailed, emitted, observed, locator, timestep, isClient,
                 sig, stats, errored, connState, remote, dialed,
                 netplayManager, players, out, intervals, pumps,
                 lastFrameTime, inputReads, tickTimes, now, pingsSent,
                 pingMeasure>>

\* ---------------------------------------- conn.on("error") (138, 226): logs
ConnError(p, c) ==
  /\ ev = Idle
  /\ connState[p][c] # "none"
  /\ errored' = [errored EXCEPT ![p] = TRUE]
  /\ ev' = Event("conn.error", p, c, NoMsg,
                 <<Call("console.error", 0, -1, <<>>, 0)>>, <<>>, "none")
  /\ UNCHANGED <<decodeFailed, emitted, observed, locator, timestep, isClient, sig, stats, connState, remote,
                 dialed, netplayManager, players, out, intervals, pumps,
                 lastFrameTime, inputReads, tickTimes, now, pingsSent,
                 pingMeasure>>

\* ------------------------------------- conn.on("open") (152-160, 245-252)
\* Starts the ping interval on this connection and the frame pump.
OnConnOpen(p, c) ==
  /\ connState' = [connState EXCEPT ![p][c] = "open"]
  /\ intervals' = [intervals EXCEPT ![p] = @ \cup {c}]
  /\ pumps' = [pumps EXCEPT ![p] = @ + 1]
  /\ ev' = Event("conn.open", p, c, NoMsg,
                 <<Call("setInterval", 0, -1, <<>>, 0),
                   Call("requestAnimationFrame", 0, -1, <<>>, 0)>>,
                 <<>>, "none")

ConnOpen(p, c) ==
  /\ ev = Idle
  /\ connState[p][c] = "pending"
  /\ remote[p][c].page \in Pages
  /\ OnConnOpen(p, c)
  /\ UNCHANGED <<decodeFailed, emitted, observed, locator, timestep, isClient, sig, stats, errored, remote,
                 dialed, netplayManager, players, out, lastFrameTime, inputReads, tickTimes, now, pingsSent, pingMeasure>>

\* The data channel to a peer that is not a modelled page opens.
EnvConnOpen(p, c) ==
  /\ ev = Idle
  /\ connState[p][c] = "pending"
  /\ remote[p][c].page \notin Pages
  /\ remote' = [remote EXCEPT ![p][c] = EnvRemote]
  /\ OnConnOpen(p, c)
  /\ UNCHANGED <<decodeFailed, emitted, observed, locator, timestep, isClient, sig, stats, errored, dialed,
                 netplayManager, players, out, lastFrameTime, inputReads, tickTimes, now, pingsSent, pingMeasure>>


\* ------------------------------------- conn.on("data") (139-151, 227-244)
\* What a dispatcher does with one message: the calls it makes, the
\* messages it sends back on the connection, and what it raises.
Effect(calls, sent, raised) ==
  [calls |-> calls, sent |-> sent, raised |-> raised]

\* Date.now() - data.sent_time
SampleReversed(dnow, sent) == sent - dnow
Sample(dnow, sent) == dnow - sent

OnInput(m, mgr, pls, from) ==
  IF mgr.id = 0 \/ pls = NullPlayers
  THEN Effect(<<>>, <<>>, "TypeError")
  ELSE IF ~m.ok
  THEN Effect(<<Call("getInputFromJSON", 0, -1, m.body, 0)>>, <<>>, "decode")
  ELSE Effect(<<Call("getInputFromJSON", 0, -1, m.body, 0),
                Call("onRemoteInput", m.frame, At(pls, from).getID,
                     FromJSON(m.body), 0)>>, <<>>, "none")

OnState(m, mgr) ==
  IF mgr.id = 0
  THEN Effect(<<>>, <<>>, "TypeError")
  ELSE IF ~m.ok
  THEN Effect(<<Call("getStateFromJSON", 0, -1, m.body, 0)>>, <<>>, "decode")
  ELSE Effect(<<Call("getStateFromJSON", 0, -1, m.body, 0),
                Call("onStateSync", m.frame, -1, FromJSON(m.body), 0)>>,
              <<>>, "none")

OnPingStrict(m, dnow) ==
  IF m.type = "ping-req"
  THEN Effect(<<>>, <<PingResp(m.sent_time)>>, "none")
  ELSE IF m.type = "ping-resp"
  THEN Effect(<<Call("pingMeasure.update", 0, -1, <<>>,
                     Sample(dnow, m.sent_time))>>, <<>>, "none")
  ELSE Effect(<<>>, <<>>, "Error")

OnPing(m, dnow) ==
  IF m.type = "ping-req"
  THEN Effect(<<>>, <<PingResp(m.sent_time)>>, "none")
  ELSE IF m.type = "ping-resp"
  THEN Effect(<<Call("pingMeasure.update", 0, -1, <<>>,
                     Sample(dnow, m.sent_time))>>, <<>>, "none")
  ELSE Effect(<<>>, <<>>, "none")

ClientDispatch(m, mgr, pls, dnow) ==
  IF m.type = "input" THEN OnInput(m, mgr, pls, 0)
  ELSE IF m.type = "state" THEN OnState(m, mgr)
  ELSE OnPing(m, dnow)

HostDispatchLocal(m, mgr, pls, dnow) ==
  IF m.type = "input" THEN OnInput(m, mgr, pls, 0)
  ELSE OnPing(m, dnow)

HostDispatch(m, mgr, pls, dnow) ==
  IF m.type = "input" THEN OnInput(m, mgr, pls, 1)
  ELSE OnPing(m, dnow)

Dispatch(p, m) ==
  IF isClient[p]
  THEN ClientDispatch(m, netplayManager[p], players[p], DateNow)
  ELSE HostDispatch(m, netplayManager[p], players[p], DateNow)

Updates(calls) == SelectSeq(calls, LAMBDA k : k.fn = "pingMeasure.update")

\* The handler of connection c of page p runs on message m.
OnData(p, c, m) ==
  LET eff == Dispatch(p, m)
      ups == Updates(eff.calls)
  IN  /\ connState[p][c] = "open"
      /\ HasRoom(p, c, Len(eff.sent))
      /\ ups # <<>> => pingMeasure[p] < MaxSamples
      /\ pingMeasure' = [pingMeasure EXCEPT ![p] = @ + Len(ups)]
      /\ errored' = ErroredAfter(p, c, eff.sent)
      /\ decodeFailed' =
           [decodeFailed EXCEPT ![p] = @ \/ eff.raised = "decode"]
      /\ ev' = Event("conn.data", p, c, m, eff.calls, eff.sent, eff.raised)

\* The head of what the page at the other end has sent is delivered.
Deliver(p, c) ==
  LET r == remote[p][c]
  IN  /\ ev = Idle
      /\ r.page \in Pages
      /\ out[r.page][r.conn] # <<>>
      /\ OnData(p, c, Head(out[r.page][r.conn]))
      /\ observed' =
           [observed EXCEPT
              ![p] = @ \o Observes(Dispatch(p, Head(out[r.page][r.conn])).calls)]
      /\ out' = [OutAfter(p, c, Dispatch(p, Head(out[r.page][r.conn])).sent)
                   EXCEPT ![r.page][r.conn] = Tail(@)]
      /\ UNCHANGED <<emitted, locator, timestep, isClient, sig, stats, connState,
                     remote, dialed, netplayManager, players, intervals,
                     pumps, lastFrameTime, inputReads, tickTimes, now,
                     pingsSent>>

\* What a peer that is not a modelled page may send: any message at all.
EnvTimes == {EpochMs, EpochMs + 1, EpochMs + 2}

EnvMsgs ==
  {Msg("input", f, ToJSON(<<"up">>), 0, k) : f \in {1}, k \in BOOLEAN}
  \cup {Msg("state", 1, ToJSON(<<"state">>), 0, k) : k \in BOOLEAN}
  \cup {Msg(t, 0, <<>>, s, TRUE) : t \in {"ping-req", "ping-resp"}, s \in EnvTimes}
  \cup {Msg("bogus", 0, <<>>, 0, TRUE), Msg(Undefined, 0, <<>>, 0, TRUE)}

EnvData(p, c, m) ==
  /\ ev = Idle
  /\ remote[p][c] = EnvRemote
  /\ OnData(p, c, m)
  /\ UNCHANGED <<emitted, observed, locator, timestep, isClient, sig, stats, connState, remote,
                 dialed, netplayManager, players, out, intervals, pumps,
                 lastFrameTime, inputReads, tickTimes, now, pingsSent>>

\* -------------------------------------- the setInterval task (155, 248)
PingTimer(p, c) ==
  LET sent == <<PingReq(DateNow)>>
  IN  /\ ev = Idle
      /\ c \in intervals[p]
      /\ pingsSent[p] < MaxPings
      /\ HasRoom(p, c, 1)
      /\ pingsSent' = [pingsSent EXCEPT ![p] = @ + 1]
      /\ out' = OutAfter(p, c, sent)
      /\ errored' = ErroredAfter(p, c, sent)
      /\ ev' = Event("interval", p, c, NoMsg, <<>>, sent, "none")
      /\ UNCHANGED <<decodeFailed, emitted, observed, locator, timestep, isClient, sig, stats, connState,
                     remote, dialed, netplayManager, players, intervals,
                     pumps, lastFrameTime, inputReads, tickTimes, now,
                     pingMeasure>>


\* ------------------------------------------------- gameLoop (261-287)
\* timestamp - lastFrameTime >= Math.floor(TIMESTEP)
ShouldTickStrict(timestamp, last, t) == timestamp - last > Floor(t)
ShouldTick(timestamp, last, t) == timestamp - last >= Floor(t)

\* lastFrameTime = timestamp
NextFrameTimeStepped(timestamp, last, t) == last + Floor(t)
NextFrameTime(timestamp, last, t) == timestamp

\* requestAnimationFrame(gameLoop), the last statement of gameLoop, is
\* reached in either branch unless a call before it raised.
RearmsInBranch(tick, raised) == tick /\ raised = "none"
Rearms(tick, raised) == raised = "none"

\* What a collaborator called in the tick branch may do: return, or raise
\* (the input reader, the engine's tick, the draw).
Raises == {"none", "reader", "tick", "draw"}

\* What netplayManager.tick(input) does with the callbacks it was given:
\* nothing (it stalls), the local input's callback, or that and the state's.
TickOutcomes == {"stall", "input", "state"}

StateOf(mgr) == <<"state">>

\* The callbacks the engine calls while it ticks to frame f, with their
\* arguments: (frame, input) and, where one was given, (frame, state).
Emit(t, f, v) == [type |-> t, frame |-> f, val |-> v]

TickEmits(mgr, f, input, eo) ==
  IF eo = "stall" THEN <<>>
  ELSE <<Emit("input", f, input)>> \o
       (IF eo = "state" /\ mgr.hasStateCallback
        THEN <<Emit("state", f, StateOf(mgr))>> ELSE <<>>)

\* (frame, input) => conn.send({type: "input", frame, input: input.toJSON()})
\* (frame, state) => conn.send({type: "state", frame, state: state.toJSON()})
SendOf(e) ==
  IF e.type = "input" THEN InputMsg(e.frame, e.val) ELSE StateMsg(e.frame, e.val)

\* The messages the engine's callbacks send while it ticks to frame f.
TickSends(mgr, f, input, eo) ==
  [i \in 1..Len(TickEmits(mgr, f, input, eo)) |->
     SendOf(TickEmits(mgr, f, input, eo)[i])]

\* One requestAnimationFrame callback of page p runs at timestamp now; r is
\* what raises, input what inputReader returns, eo what the tick does.
GameLoop(p, r, input, eo) ==
  LET mgr == netplayManager[p]
      tick == ShouldTick(now, lastFrameTime[p], timestep)
      raised == IF ~tick THEN "none"
                ELSE IF r = "reader" THEN "reader"
                ELSE IF mgr.id = 0 THEN "TypeError"
                ELSE r
      ticked == tick /\ raised \notin {"reader", "TypeError"}
      advanced == ticked /\ raised # "tick" /\ eo # "stall"
      frame == IF advanced THEN mgr.frame + 1 ELSE mgr.frame
      sent == IF advanced THEN TickSends(mgr, frame, input, eo) ELSE <<>>
      emits == IF advanced THEN TickEmits(mgr, frame, input, eo) ELSE <<>>
      drawn == ticked /\ raised # "tick"
      done == tick /\ raised = "none"
      calls ==
        (IF tick THEN <<Call("inputReader", 0, -1, <<>>, 0)>> ELSE <<>>)
        \o (IF ticked THEN <<Call("tick", 0, -1, input, 0)>> ELSE <<>>)
        \o (IF drawn THEN <<Call("draw", 0, -1, <<>>, 0)>> ELSE <<>>)
        \o (IF Rearms(tick, raised)
            THEN <<Call("requestAnimationFrame", 0, -1, <<>>, 0)>> ELSE <<>>)
  IN  /\ ev = Idle
      /\ pumps[p] > 0
      /\ HasRoom(p, mgr.conn, Len(sent))
      /\ inputReads' = [inputReads EXCEPT ![p] = IF tick THEN @ + 1 ELSE @]
      /\ tickTimes' =
           [tickTimes EXCEPT ![p] = IF ticked THEN Append(@, now) ELSE @]
      /\ netplayManager' = [netplayManager EXCEPT ![p].frame = frame]
      /\ out' = OutAfter(p, mgr.conn, sent)
      /\ emitted' = EmittedAfter(p, mgr.conn, emits)
      /\ errored' = ErroredAfter(p, mgr.conn, sent)
      /\ stats' = [stats EXCEPT ![p] = IF done THEN "diag" ELSE @]
      /\ lastFrameTime' =
           [lastFrameTime EXCEPT
              ![p] = IF done THEN NextFrameTime(now, @, timestep) ELSE @]
      /\ pumps' =
           [pumps EXCEPT ![p] = IF Rearms(tick, raised) THEN @ ELSE @ - 1]
      /\ ev' = Event("gameLoop", p, 0, NoMsg, calls, sent, raised)
      /\ UNCHANGED <<decodeFailed, observed, locator, timestep, isClient, sig, connState, remote,
                     dialed, players, intervals, now, pingsSent, pingMeasure>>

\* ----------------------------------------------------------------- time
Advance(limit) ==
  /\ ev = Idle
  /\ now < limit
  /\ now' = now + 1
  /\ UNCHANGED <<ev, decodeFailed, emitted, observed, locator, timestep, isClient, sig, stats, errored, connState,
                 remote, dialed, netplayManager, players, out, intervals,
                 pumps, lastFrameTime, inputReads, tickTimes, pingsSent,
                 pingMeasure>>

\* The callback returns to the event loop.
Return ==
  /\ ev # Idle
  /\ ev' = Idle
  /\ UNCHANGED <<decodeFailed, emitted, observed, locator, timestep, isClient, sig, stats, errored, connState,
                 remote, dialed, netplayManager, players, out, intervals,
                 pumps, lastFrameTime, inputReads, tickTimes, now, pingsSent, pingMeasure>>

\* ------------------------------------------------------ the specifications
\* Page "a" is opened with no room in its locator; page "b" with any.
InitOne == Init /\ locator["a"] = <<>>

\* Spec: page "b" alone, against any peer and any transport: the peer may
\* send any message, further peers may connect, "open" may be emitted again.
Page == "b"

NextOne(conns, time) ==
  \/ PeerOpen(Page, conns)
  \/ PeerReopen(Page, conns)
  \/ PeerError(Page)
  \/ EnvConnection(Page, conns)
  \/ StrayConnection(Page)
  \/ \E c \in Conns : EnvConnOpen(Page, c)
  \/ \E c \in Conns : ConnError(Page, c)
  \/ \E c \in Conns : \E m \in EnvMsgs : EnvData(Page, c, m)
  \/ \E c \in Conns : PingTimer(Page, c)
  \/ \E r \in Raises : \E i \in Inputs : \E eo \in TickOutcomes :
       GameLoop(Page, r, i, eo)
  \/ Advance(time)
  \/ Return

Next == NextOne(MaxConns, MaxTime)

Spec == InitOne /\ [][Next]_vars

\* SpecPace: the same page and environment, followed for longer, with one
\* connection slot.
NextPace == NextOne(1, MaxPaceTime)

SpecPace == InitOne /\ [][NextPace]_vars

\* SpecLive: the same page and environment with one connection slot, where
\* the browser runs every pending refresh callback in the end and every
\* callback returns.
NextLive == NextOne(1, MaxTime)

Refresh ==
  \E r \in Raises : \E i \in Inputs : \E eo \in TickOutcomes :
    GameLoop(Page, r, i, eo)

SpecLive ==
  InitOne /\ [][NextLive]_vars /\ SF_vars(Refresh) /\ WF_vars(Return)

\* SpecPair: the two pages, joined by a reliable, ordered channel on which
\* the transport reports no error.
NextPair ==
  \/ \E p \in Pages : PeerOpen(p, 1)
  \/ \E h \in Pages : \E q \in Pages : \E c \in Conns : Connection(h, q, c, 1)
  \/ \E p \in Pages : \E c \in Conns : ConnOpen(p, c)
  \/ \E p \in Pages : \E c \in Conns : Deliver(p, c)
  \/ \E p \in Pages : \E c \in Conns : PingTimer(p, c)
  \/ \E p \in Pages : \E r \in Raises : \E i \in PairInputs :
       \E eo \in TickOutcomes : GameLoop(p, r, i, eo)
  \/ Advance(MaxPairTime)
  \/ Return

SpecPair == InitOne /\ [][NextPair]_vars

\* SpecOrder: the host and the client that joins it, with their channel,
\* followed for long enough for the engines to tick twice; no collaborator
\* raises.
NextOrder ==
  \/ \E p \in Pages : PeerOpen(p, 1)
  \/ \E h \in Pages : \E q \in Pages : \E c \in Conns : Connection(h, q, c, 1)
  \/ \E p \in Pages : \E c \in Conns : ConnOpen(p, c)
  \/ \E p \in Pages : \E c \in Conns : Deliver(p, c)
  \/ \E p \in Pages : \E c \in Conns : PingTimer(p, c)
  \/ \E p \in Pages : \E eo \in TickOutcomes : GameLoop(p, "none", <<"up">>, eo)
  \/ Advance(MaxOrderTime)
  \/ Return

\* Page "b" is opened with page "a"'s join URL; the timestep is 1 ms.
InitOrder ==
  /\ InitOne
  /\ locator["b"] = <<Component("room", "a")>>
  /\ timestep = Scale

SpecOrder == InitOrder /\ [][NextOrder]_vars


\* ===================================================================
\* The claims
\* ===================================================================
CountCalls(e, fn) == Len(SelectSeq(e.calls, LAMBDA k : k.fn = fn))
CountSent(e, t) == Len(SelectSeq(e.sent, LAMBDA m : m.type = t))

\* The step is a run of gameLoop on page p.
LoopStep(p) == ev = Idle /\ ev'.op = "gameLoop" /\ ev'.page = p

\* In the step, gameLoop read the input, ticked and drew once each and set
\* lastFrameTime to its timestamp; or did none of it.
TickedAll(p) ==
  /\ CountCalls(ev', "inputReader") = 1
  /\ CountCalls(ev', "tick") = 1
  /\ CountCalls(ev', "draw") = 1
  /\ lastFrameTime'[p] = now

TickedNone(p) ==
  /\ CountCalls(ev', "inputReader") = 0
  /\ CountCalls(ev', "tick") = 0
  /\ CountCalls(ev', "draw") = 0
  /\ lastFrameTime'[p] = lastFrameTime[p]

\* ------------------------------------------------------------------ C1
\* C1 as claimed: a gameLoop call in which nothing raises reads the input,
\* ticks, draws and sets lastFrameTime if timestamp - lastFrameTime is at
\* least the configured timestep, and does none of these otherwise.
C1_Claimed ==
  [][\A p \in Pages :
       (LoopStep(p) /\ ev'.raised = "none") =>
         IF now - lastFrameTime[p] >= timestep
         THEN TickedAll(p) ELSE TickedNone(p)]_vars

\* C1, amended: gameLoop enters its tick branch (calls the input reader)
\* exactly when timestamp - lastFrameTime is at least Math.floor(timestep);
\* there, unless a collaborator raises, it reads, ticks and draws once each
\* and sets lastFrameTime to the timestamp; below that threshold, and in a
\* call that raises, lastFrameTime is left unchanged, and below it nothing
\* is read, ticked or drawn.
C1_TickIffFloor ==
  [][\A p \in Pages :
       LoopStep(p) =>
         LET elapsed == now - lastFrameTime[p]
         IN  /\ CountCalls(ev', "inputReader") =
                  (IF elapsed >= Floor(timestep) THEN 1 ELSE 0)
             /\ elapsed < Floor(timestep) => TickedNone(p)
             /\ (elapsed >= Floor(timestep) /\ ev'.raised = "none")
                  => TickedAll(p)
             /\ ev'.raised # "none" => lastFrameTime'[p] = lastFrameTime[p]]_vars

\* C1's case: with the fractional timestep 1 + 1/Scale ms, a call whose
\* timestamp is 1 ms after lastFrameTime = 0 has ticked.
C1_Witness ==
  /\ ev.op = "gameLoop" /\ ev.raised = "none"
  /\ CountCalls(ev, "tick") = 1
  /\ timestep = Scale + 1
  /\ now = Scale
  /\ lastFrameTime[ev.page] = now

\* ------------------------------------------------------------------ C2
\* The timestamp of the last call that ticked; 0 before any.
PrevTick(p) == IF tickTimes[p] = <<>> THEN 0 ELSE tickTimes[p][Len(tickTimes[p])]

\* No pump of page p has been ended by a raise: every connection that
\* opened started one interval and one pump.
NoPumpDied(p) == pumps[p] = Cardinality(intervals[p])

\* Every tick is at least d after the tick before it (the first after 0).
Apart(seq, d) ==
  \A i \in 1..Len(seq) : seq[i] - (IF i = 1 THEN 0 ELSE seq[i - 1]) >= d

\* C2 as claimed: over the refresh callbacks of a pump in which nothing
\* raises, the input reader is invoked as often as the engine is advanced,
\* a callback advances it at most once, and a callback ticks exactly when
\* its timestamp is at least one timestep after that of the previous
\* ticking callback.
C2_Claimed ==
  [][\A p \in Pages :
       (LoopStep(p) /\ NoPumpDied(p) /\ ev'.raised = "none") =>
         /\ inputReads'[p] - inputReads[p]
              = Len(tickTimes'[p]) - Len(tickTimes[p])
         /\ Len(tickTimes'[p]) - Len(tickTimes[p]) <= 1
         /\ (tickTimes'[p] # tickTimes[p])
              <=> (now - PrevTick(p) >= timestep)]_vars

\* C2, amended: a callback advances the engine at most once and the engine
\* is never advanced more often than the input reader is invoked (exactly
\* as often while nothing has raised); a callback ticks exactly when its
\* timestamp is at least Math.floor(timestep) after lastFrameTime, which is
\* 0 or the timestamp of a callback that ticked (it is set to the current
\* timestamp, not to lastFrameTime + timestep); while nothing has raised,
\* lastFrameTime is the timestamp of the previous ticking callback and the
\* ticks are at least Math.floor(timestep) apart.
C2_State ==
  \A p \in Pages :
    /\ Len(tickTimes[p]) <= inputReads[p]
    /\ lastFrameTime[p] = 0
         \/ \E i \in 1..Len(tickTimes[p]) : tickTimes[p][i] = lastFrameTime[p]
    /\ NoPumpDied(p) =>
         /\ inputReads[p] = Len(tickTimes[p])
         /\ lastFrameTime[p] = PrevTick(p)
         /\ Apart(tickTimes[p], Floor(timestep))

C2_Step ==
  \A p \in Pages :
    LoopStep(p) =>
      /\ Len(tickTimes'[p]) - Len(tickTimes[p]) \in {0, 1}
      /\ inputReads'[p] - inputReads[p] \in {0, 1}
      /\ (inputReads'[p] # inputReads[p])
           <=> (now - lastFrameTime[p] >= Floor(timestep))
      /\ ev'.raised = "none" =>
           /\ Len(tickTimes'[p]) - Len(tickTimes[p])
                = inputReads'[p] - inputReads[p]
           /\ tickTimes'[p] # tickTimes[p] =>
                lastFrameTime'[p] = now /\ PrevTick(p)' = now

C2_TicksPaced == []C2_State /\ [][C2_Step]_vars

\* C2's case, the claim's example in units (timestep 16: ticks at 16 and
\* 40): with the timestep 1 ms, the ticks fell at 1 ms and 2.5 ms.
C2_Witness ==
  \E p \in Pages :
    /\ timestep = Scale
    /\ tickTimes[p] = <<Scale, 2 * Scale + 1>>
    /\ lastFrameTime[p] = 2 * Scale + 1

\* ------------------------------------------------------------------ C3
\* C3: whenever the players are defined there are exactly two, with getID
\* 0 and 1; player 0 is the server's and player 1 the client's; for each,
\* isLocalPlayer and isRemotePlayer are complementary; on the host exactly
\* player 0 is local and on the client exactly player 1.
C3_Players ==
  \A p \in Pages :
    players[p] # NullPlayers =>
      /\ Len(players[p]) = 2
      /\ \A i \in {0, 1} :
           LET pl == At(players[p], i)
           IN  /\ pl.getID = i
               /\ pl.isServer = (i = 0)
               /\ pl.isClient = (i = 1)
               /\ pl.isRemotePlayer = ~pl.isLocalPlayer
               /\ pl.isLocalPlayer = (i = IF isClient[p] THEN 1 ELSE 0)

\* C3's case: a host to which a peer has connected.
C3_Witness ==
  \E p \in Pages : ~isClient[p] /\ players[p] # NullPlayers

\* ------------------------------------------------------------------ C4
\* The locator has a room component / one with a non-empty value.
HasRoomComponent(hash) == \E i \in DOMAIN hash : hash[i].key = "room"
HasRoomToken(hash) ==
  \E i \in DOMAIN hash : hash[i].key = "room" /\ hash[i].value \notin {NoValue, ""}
RoomToken(hash) ==
  hash[CHOOSE i \in DOMAIN hash : hash[i].key = "room"].value

\* C4 as claimed: every locator with a room component, whatever its value,
\* makes the page a client.
C4_Claimed ==
  \A p \in Pages : isClient[p] <=> HasRoomComponent(locator[p])

\* C4, amended: the page is a client exactly when its locator's room
\* component has a non-empty value (no component, "#room" and "#room="
\* make it a host); a client dials exactly that value, unvalidated; the
\* role never changes.
C4_RoleState ==
  \A p \in Pages :
    /\ isClient[p] <=> HasRoomToken(locator[p])
    /\ \A c \in Conns :
         dialed[p][c] # Undefined =>
           isClient[p] /\ dialed[p][c] = RoomToken(locator[p])
    /\ (isClient[p] /\ sig[p] = "open") => dialed[p][1] # Undefined

C4_Role == []C4_RoleState /\ [][isClient' = isClient /\ locator' = locator]_vars

\* C4's case: a client has dialed the malformed token of its locator.
C4_Witness ==
  \E p \in Pages : \E c \in Conns : dialed[p][c] = "zz"

\* ------------------------------------------------------------------ C5
\* C5: a callback of a client page never sends a message of type state,
\* and a callback of a host page never calls the engine's onStateSync,
\* whatever message it received.
C5_Directional ==
  ev.page \in Pages =>
    /\ isClient[ev.page] => CountSent(ev, "state") = 0
    /\ ~isClient[ev.page] => CountCalls(ev, "onStateSync") = 0

\* C5's case: a host with an engine has received a well-formed message
\* tagged state.
C5_Witness ==
  /\ ev.op = "conn.data" /\ ev.msg.type = "state" /\ ev.msg.ok
  /\ ~isClient[ev.page]
  /\ netplayManager[ev.page].id # 0

\* ------------------------------------------------------------------ C6
InFlight(p, c, t) == Len(SelectSeq(out[p][c], LAMBDA m : m.type = t))

\* The ping-req of page p not yet received, and the ping-resp sent to it
\* and not yet received.
PingsInFlight(p) ==
  LET open == {c \in Conns : remote[p][c].page \in Pages}
      Sum[S \in SUBSET open] ==
        IF S = {} THEN 0
        ELSE LET c == CHOOSE x \in S : TRUE
             IN  InFlight(p, c, "ping-req")
                 + InFlight(remote[p][c].page, remote[p][c].conn, "ping-resp")
                 + Sum[S \ {c}]
  IN  Sum[open]

\* C6: the handler of a received ping-req sends exactly one message, a
\* ping-resp with the same sent_time, on the connection it came in on
\* (it is the last message queued there); the handler of any other message
\* sends nothing; and the samples given to a page's estimator, with its
\* requests and the responses to it still in flight, never exceed the
\* ping-req it has sent.
C6_PingEcho ==
  /\ ev.op = "conn.data" =>
       IF ev.msg.type = "ping-req"
       THEN /\ Len(ev.sent) = 1
            /\ ev.sent[1].type = "ping-resp"
            /\ ev.sent[1].sent_time = ev.msg.sent_time
            /\ out[ev.page][ev.conn] # <<>>
            /\ out[ev.page][ev.conn][Len(out[ev.page][ev.conn])] = ev.sent[1]
       ELSE ev.sent = <<>>
  /\ \A p \in Pages : pingMeasure[p] + PingsInFlight(p) <= pingsSent[p]

\* C6's case: the answer to a page's ping-req has come back to it.
C6_Witness ==
  /\ ev.op = "conn.data" /\ ev.msg.type = "ping-resp"
  /\ ev.msg.sent_time >= EpochMs
  /\ pingMeasure[ev.page] = 1
  /\ pingsSent[ev.page] = 1

\* ------------------------------------------------------------------ C7
\* C7: the handler of a received ping-resp calls pingMeasure.update exactly
\* once, with Date.now() - sent_time; the handler of any other message does
\* not call it; and nothing else gives the estimator a sample.
C7_DataState ==
  ev.op = "conn.data" =>
    IF ev.msg.type = "ping-resp"
    THEN /\ Len(Updates(ev.calls)) = 1
         /\ Updates(ev.calls)[1].num = DateNow - ev.msg.sent_time
    ELSE Updates(ev.calls) = <<>>

C7_Step ==
  \A p \in Pages :
    pingMeasure'[p] - pingMeasure[p] =
      IF ev = Idle /\ ev'.op = "conn.data" /\ ev'.page = p
         /\ ev'.msg.type = "ping-resp"
      THEN 1 ELSE 0

C7_Sampling == []C7_DataState /\ [][C7_Step]_vars

\* C7's case: a ping-resp with sent_time EpochMs received at EpochMs + 1
\* gave the one sample 1.
C7_Witness ==
  /\ ev.op = "conn.data" /\ ev.msg.type = "ping-resp"
  /\ ev.msg.sent_time = EpochMs
  /\ DateNow = EpochMs + 1
  /\ Updates(ev.calls) = <<Call("pingMeasure.update", 0, -1, <<>>, 1)>>
  /\ pingMeasure[ev.page] = 1

\* ------------------------------------------------------------------ C8
\* C8 as claimed: no NetplayManager exists in a state in which no data
\* channel of the page has reported open.
C8_Claimed ==
  \A p \in Pages :
    netplayManager[p].id # 0 => \E c \in Conns : connState[p][c] = "open"

\* C8, amended: the NetplayManager is constructed when the page obtains
\* the connection, before its data channel reports open: on the host in
\* the handler of the inbound connection event, on the client in the
\* handler of the signaling open event, right after dialing; the handler
\* of the data channel's open constructs none.  So a NetplayManager exists
\* exactly when the page has obtained a connection, and the ping task and
\* the frame pump, which start at open, never run without one.
C8_EngineAtConnection ==
  /\ \A p \in Pages :
       /\ netplayManager[p].id # 0 <=> \E c \in Conns : connState[p][c] # "none"
       /\ \A c \in intervals[p] : connState[p][c] = "open"
       /\ (pumps[p] > 0 \/ intervals[p] # {}) => netplayManager[p].id # 0
  /\ ev.page \in Pages =>
       /\ CountCalls(ev, "new NetplayManager") =
            (IF ev.op = "peer.connection"
                \/ (ev.op = "peer.open" /\ isClient[ev.page])
             THEN 1 ELSE 0)
       /\ CountCalls(ev, "new NetplayManager") = 1 =>
            /\ connState[ev.page][ev.conn] = "pending"
            /\ netplayManager[ev.page].conn = ev.conn

\* C8's case: the host has only received the inbound connection event; the
\* data channel has not opened and the NetplayManager exists.
C8_Witness ==
  /\ ev.op = "peer.connection"
  /\ netplayManager[ev.page].id = 1
  /\ \A c \in Conns : connState[ev.page][c] # "open"

\* ------------------------------------------------------------------ C9
\* C9: for any sequence of transport events, a page constructs at most one
\* NetplayManager, and netplayManager and players are never assigned again
\* once set.
C9_OneEngine ==
  [][\A p \in Pages :
       /\ netplayManager'[p].id <= 1
       /\ netplayManager[p].id # 0 =>
            CountCalls(ev', "new NetplayManager") = 0 \/ ev'.page # p]_vars

\* ----------------------------------------------------------------- C10
\* C10: once a signaling or connection error has been reported on a page,
\* no later step constructs an engine, starts a ping task or a frame pump,
\* or advances the engine there.
C10_ErroredAbsorbing ==
  [][\A p \in Pages :
       errored[p] =>
         /\ netplayManager'[p].id = netplayManager[p].id
         /\ intervals'[p] = intervals[p]
         /\ pumps'[p] <= pumps[p]
         /\ tickTimes'[p] = tickTimes[p]]_vars

\* ----------------------------------------------------------------- C11
\* The tags the data handler of page p has a branch for.
Handled(p) ==
  IF isClient[p] THEN {"input", "state", "ping-req", "ping-resp"}
  ELSE {"input", "ping-req", "ping-resp"}

\* The step is the data handler of some page running on a message.
DataStep == ev = Idle /\ ev'.op = "conn.data"

\* C11: the data handler, run on a message whose type is unknown or
\* missing, or on a state message at the host, calls nothing, sends
\* nothing, raises nothing and leaves the estimator, the engine and the
\* error log as they were.
C11_UnknownIgnored ==
  [][(DataStep /\ ev'.msg.type \notin Handled(ev'.page)) =>
       /\ ev'.calls = <<>>
       /\ ev'.sent = <<>>
       /\ ev'.raised = "none"
       /\ pingMeasure' = pingMeasure
       /\ netplayManager' = netplayManager
       /\ out' = out
       /\ errored' = errored]_vars

\* C11's case: a message without a type has been handled.
C11_Witness ==
  /\ ev.op = "conn.data"
  /\ ev.msg.type = Undefined
  /\ ev.raised = "none"

\* ----------------------------------------------------------------- C12
\* C12: the data handler passes every decodable inbound input to
\* onRemoteInput exactly once, with the frame of the message and the
\* player of the other role (the host with player 1, the client with
\* player 0), which is the remote player of the page's pair; no other
\* message reaches onRemoteInput.
C12_Attribution ==
  ev.op = "conn.data" =>
    LET p == ev.page
        their == IF isClient[p] THEN 0 ELSE 1
        got == SelectSeq(ev.calls, LAMBDA k : k.fn = "onRemoteInput")
    IN  /\ Len(got) = (IF ev.msg.type = "input" /\ ev.msg.ok THEN 1 ELSE 0)
        /\ \A i \in 1..Len(got) :
             /\ got[i].player = their
             /\ got[i].frame = ev.msg.frame
             /\ At(players[p], got[i].player).isRemotePlayer
             /\ ~At(players[p], got[i].player).isLocalPlayer

\* C12's case: a host has passed an inbound input on.
C12_Witness ==
  /\ ev.op = "conn.data" /\ ev.msg.type = "input"
  /\ ~isClient[ev.page]
  /\ CountCalls(ev, "onRemoteInput") = 1

\* ----------------------------------------------------------------- C13
\* The call the data handler of page q makes for what the other page's
\* engine emitted.
ExpectedCall(q, e) ==
  IF e.type = "input"
  THEN Call("onRemoteInput", e.frame, IF isClient[q] THEN 0 ELSE 1, e.val, 0)
  ELSE Call("onStateSync", e.frame, -1, e.val, 0)

\* The input and state messages among msgs.
EngineMsgs(msgs) == SelectSeq(msgs, LAMBDA m : m.type \in {"input", "state"})

\* C13: over the channel between two pages, what the engine of page p has
\* emitted through its callbacks is, in the order the callbacks fired,
\* what the engine of the other page has been called with (onRemoteInput
\* with the same frame, p's player and the decoded input; onStateSync with
\* the same frame and the decoded state) followed by what is still in
\* flight: each emission is observed at most once, exactly once when
\* nothing is in flight, none is invented and none overtakes another.
C13_Delivery ==
  \A p \in Pages : \A c \in Conns :
    remote[p][c].page \in Pages =>
      LET q == remote[p][c].page
          flying == EngineMsgs(out[p][c])
          seen == Len(observed[q])
      IN  /\ seen + Len(flying) = Len(emitted[p])
          /\ \A i \in 1..seen : observed[q][i] = ExpectedCall(q, emitted[p][i])
          /\ \A i \in 1..Len(flying) :
               /\ flying[i].type = emitted[p][seen + i].type
               /\ flying[i].frame = emitted[p][seen + i].frame
          /\ \A i \in 1..Len(emitted[p]) : \A j \in 1..Len(emitted[p]) :
               i < j => emitted[p][i].frame <= emitted[p][j].frame

\* C13's case: the client has observed the host's input and state of
\* frame 1 and then its input of frame 2, and the host the client's input.
C13_Witness ==
  \E h \in Pages : \E q \in Pages :
    /\ ~isClient[h] /\ isClient[q]
    /\ observed[q] =
         <<Call("onRemoteInput", 1, 0, <<"up">>, 0),
           Call("onStateSync", 1, -1, <<"state">>, 0),
           Call("onRemoteInput", 2, 0, <<"up">>, 0)>>
    /\ observed[h] = <<Call("onRemoteInput", 1, 1, <<"up">>, 0)>>

\* ----------------------------------------------------------------- C14
\* C14: every sample the data handler gives to pingMeasure.update is
\* non-negative, whatever sent_time the ping-resp carries.
C14_NonNegative ==
  ev.op = "conn.data" =>
    \A i \in 1..Len(Updates(ev.calls)) : Updates(ev.calls)[i].num >= 0

C15_Step ==
  \A p \in Pages :
    /\ LoopStep(p) =>
         /\ CountCalls(ev', "requestAnimationFrame") =
              (IF ev'.raised = "none" THEN 1 ELSE 0)
         /\ pumps'[p] = (IF ev'.raised = "none" THEN pumps[p] ELSE pumps[p] - 1)
    /\ pumps'[p] < pumps[p] => LoopStep(p) /\ ev'.raised # "none"

C16_DecodeFatal ==
  [][\A p \in Pages :
       /\ (DataStep /\ ev'.page = p /\ ~ev'.msg.ok
           /\ ev'.msg.type \in Handled(p) \ {"ping-req", "ping-resp"}) =>
            /\ ev'.raised = "decode"
            /\ Observes(ev'.calls) = <<>>
       /\ decodeFailed[p] =>
            /\ ~(DataStep /\ ev'.page = p)
            /\ tickTimes'[p] = tickTimes[p]]_vars

\* ----------------------------------------------------------------- C17
\* C17: setInterval is called only in the handler of a data channel's
\* open, and the first requestAnimationFrame of a pump too (the others in
\* gameLoop itself); so a ping-req is sent only by the ping task of a
\* connection that has reported open, and the engine is ticked, a pump
\* pending or a ping task running only on a page one of whose data
\* channels has reported open.
C17_AfterOpen ==
  /\ \A p \in Pages :
       LET opened == {c \in Conns : connState[p][c] = "open"}
       IN  /\ intervals[p] \subseteq opened
           /\ (pumps[p] > 0 \/ tickTimes[p] # <<>> \/ inputReads[p] > 0
               \/ pingsSent[p] > 0) => opened # {}
  /\ ev.page \in Pages =>
       /\ CountSent(ev, "ping-req") > 0 =>
            ev.op = "interval" /\ connState[ev.page][ev.conn] = "open"
       /\ CountCalls(ev, "tick") > 0 =>
            \E c \in Conns : connState[ev.page][c] = "open"
       /\ CountCalls(ev, "setInterval") > 0 => ev.op = "conn.open"
       /\ CountCalls(ev, "requestAnimationFrame") > 0 =>
            ev.op \in {"conn.open", "gameLoop"}
       /\ ev.op = "conn.open" =>
            /\ CountCalls(ev, "setInterval") = 1
            /\ CountCalls(ev, "requestAnimationFrame") = 1

\* C17's case: the handler of the inbound connection has run on a host, a
\* NetplayManager exists, and with no data channel open no ping task or
\* pump runs.
C17_Witness ==
  /\ ev.op = "peer.connection"
  /\ netplayManager[ev.page].id # 0
  /\ connState[ev.page][ev.conn] = "pending"
  /\ intervals[ev.page] = {} /\ pumps[ev.page] = 0 /\ pingsSent[ev.page] = 0

\* ----------------------------------------------------------------- C18
\* C18: a host never dials, and shows its join URL only once signaling is
\* open (and from then on, until the diagnostics replace it); a client
\* dials only in the handler of the signaling open, the token of its
\* locator, with JSON serialization and a reliable channel, and has no
\* connection but those it dialed: an inbound connection runs no handler
\* there; on either role a connection exists only after signaling has
\* opened, and a ping task or pump runs only after that and after a data
\* channel has opened.
C18_Bootstrap ==
  /\ \A p \in Pages :
       /\ ~isClient[p] =>
            /\ \A c \in Conns : dialed[p][c] = Undefined
            /\ stats[p] = "joinURL" => sig[p] = "open"
            /\ sig[p] = "open" => stats[p] \in {"joinURL", "diag"}
       /\ isClient[p] =>
            /\ stats[p] # "joinURL"
            /\ \A c \in Conns :
                 connState[p][c] # "none" =>
                   dialed[p][c] = RoomToken(locator[p])
            /\ ~netplayManager[p].isServer
       /\ \A c \in Conns : connState[p][c] # "none" => sig[p] = "open"
       /\ (pumps[p] > 0 \/ intervals[p] # {}) =>
            sig[p] = "open" /\ \E c \in Conns : connState[p][c] = "open"
  /\ ev.page \in Pages =>
       /\ CountCalls(ev, "peer.connect") =
            (IF ev.op = "peer.open" /\ isClient[ev.page] THEN 1 ELSE 0)
       /\ \A i \in 1..Len(ev.calls) :
            ev.calls[i].fn = "peer.connect" =>
              ev.calls[i].val =
                <<RoomToken(locator[ev.page]), "json", "reliable">>
       /\ ev.op = "peer.connection" => ~isClient[ev.page]
       /\ ev.op = "peer.connection.unheard" =>
            isClient[ev.page] /\ ev.calls = <<>>

\* C18's case: a client whose signaling has opened has dialed, and an
\* inbound connection has reached it since.
C18_Witness ==
  /\ ev.op = "peer.connection.unheard"
  /\ dialed[ev.page][1] = "a"
  /\ \A c \in Conns : c # 1 => connState[ev.page][c] = "none"
  /\ netplayManager[ev.page].id = 1

\* ----------------------------------------------------------------- C19
\* C19: whenever the data handler runs on a message or gameLoop runs its
\* tick branch, netplayManager and players have been assigned, and no
\* callback ever raises a TypeError by reading through a null reference.
C19_NoNullDeref ==
  /\ ev.raised # "TypeError"
  /\ (ev.op = "conn.data"
      \/ (ev.op = "gameLoop" /\ CountCalls(ev, "inputReader") > 0)) =>
       /\ netplayManager[ev.page].id # 0
       /\ players[ev.page] # NullPlayers
  /\ \A p \in Pages :
       (pumps[p] > 0 \/ \E c \in Conns : connState[p][c] # "none") =>
         netplayManager[p].id # 0 /\ players[p] # NullPlayers

\* C19's case: gameLoop has ticked the engine of a client through
\* netplayManager!, after the page handled an undecodable message.
C19_Witness ==
  /\ ev.op = "gameLoop" /\ isClient[ev.page]
  /\ CountCalls(ev, "tick") = 1 /\ ev.raised = "none"
  /\ decodeFailed[ev.page]

\* ----------------------------------------------------------------- C20
\* C20: on every page at most one gameLoop refresh callback is pending and
\* at most one ping interval is active.
C20_OnePump ==
  \A p \in Pages : pumps[p] <= 1 /\ Cardinality(intervals[p]) <= 1

====
